---- MODULE Spec2Model ----
(***************************************************************************)
(* State-machine model of src/server.js: the /cheapest handler, the token  *)
(* manager (getToken), the paginated fetcher (fetchBatches), the two       *)
(* cache slots (getStationsCached / getPricesCached) and the ranking step. *)
(*                                                                         *)
(* Node runs each handler to its next network await without interruption,  *)
(* so one action is one such run: from the arrival of a request or of an   *)
(* upstream reply to the next upstream request (or to the response).       *)
(*                                                                         *)
(* Units.  Time is in milliseconds, as in the code.  Latitudes and         *)
(* longitudes are in 1e-5 degrees.  Distances are in metres; the rounded   *)
(* distance_km of a result is in 1/100 km.  Prices are in 1/10 penny.      *)
(***************************************************************************)
EXTENDS Integers, Sequences, FiniteSets, TLC

\* ---------------------------------------------------------------- bounds
NumQueries == 2      \* concurrent /cheapest requests
MaxTicks == 1        \* clock advances in a behaviour
MaxPages == 1        \* non-empty pages the provider serves per resource in Spec
MaxStations == 2     \* length of the station dataset handed to the ranking
MaxPrices == 3       \* length of the price dataset handed to the ranking

\* ------------------------------------------------------- program constants
TokenMarginMs == 30000        \* tokenCache.expMs - 30_000
MinExpiresS == 60             \* Math.max(60, expiresIn)
DefaultExpiresS == 3600       \* json?.data?.expires_in ?? 3600
StationsTtlMs == 86400000     \* 24 * 60 * 60 * 1000
PricesTtlMs == 300000         \* 5 * 60 * 1000
MaxBatch == 200               \* for (batch = 1; batch <= 200; batch++)
DefaultRadiusKm == 10         \* req.query.radiusKm ?? 10
DefaultLimit == 10            \* req.query.limit ?? 10

Queries == 1..NumQueries
Slots == {"stations", "prices"}

Max(a, b) == IF a >= b THEN a ELSE b
Min(a, b) == IF a <= b THEN a ELSE b
Abs(a) == IF a >= 0 THEN a ELSE 0 - a

\* ------------------------------------------------------------ JS values
\* A query parameter: absent, or a number.
Absent == [given |-> FALSE, v |-> 0]
Num(x) == [given |-> TRUE, v |-> x]
\* Number(x) of an upstream field: a finite number, or NaN / Infinity.
Fin(x) == [fin |-> TRUE, v |-> x]
NotFinite == [fin |-> FALSE, v |-> 0]
\* A price field: typeof price === "number", or something else.
Price(x) == [num |-> TRUE, v |-> x]
NotANumber == [num |-> FALSE, v |-> 0]
\* A cache slot's data: null, or an array.
NullData == [null |-> TRUE, arr |-> <<>>]
Arr(a) == [null |-> FALSE, arr |-> a]

\* !lat of the handler: null and 0 are both falsy.
Falsy(c) == ~c.given \/ c.v = 0

\* String(x).toUpperCase() on the fuel labels of the model.
ToUpperCase(s) ==
  CASE s = "e10" -> "E10"
    [] s = "b7" -> "B7"
    [] OTHER -> s

\* ------------------------------------------------------------- geodesy
\* The meridian every finite longitude of the model lies on, and the
\* latitude of the query origin.
LonM == 0 - 12000
LatO == 515 * 10000

\* haversineKm for two points: on one meridian dLon = 0, so
\* a = sin^2(dLat/2) and the distance is R * |dLat| in radians, that is
\* 6371 * pi / 180 = 111.195 km per degree; in metres per 1e-5 degree.
haversineKm(lat1, lon1, lat2, lon2) ==
  (Abs(lat2 - lat1) * 111195) \div 100000

\* haversineKm of the Number() of a station's coordinates: NaN when one of
\* them is not finite.
Distance(lat, lon, sLat, sLon) ==
  IF sLat.fin /\ sLon.fin THEN Fin(haversineKm(lat, lon, sLat.v, sLon.v))
  ELSE NotFinite

\* round2: Math.round(x * 100) / 100 of a distance in km, here from metres
\* to 1/100 km (Math.round rounds half up).
round2(x) == (x + 5) \div 10

\* --------------------------------------------------------------- state
VARIABLES
  now,            \* Date.now()
  ticks,          \* clock advances so far
  configured,     \* FF_CLIENT_ID && FF_CLIENT_SECRET are both set
  upstream,       \* what the data provider serves
  issued,         \* tokens the token endpoint has issued
  validTo,        \* until when the endpoint honours the last token it issued
  tokenCache,     \* { token, expMs }; token 0 is null
  stationsCache,  \* { data, expMs }
  pricesCache,    \* { data, expMs }
  pc,             \* where each /cheapest handler is
  par,            \* fuel, radiusKm, limit of each handler
  loc,            \* lat, lon of each handler
  tok,            \* token of each handler
  fetch,          \* the getStationsCached / getPricesCached call of each handler
  resp            \* the response each handler sent

vars == <<now, ticks, configured, upstream, issued, validTo, tokenCache,
          stationsCache, pricesCache, pc, par, loc, tok, fetch, resp>>

shared == <<now, ticks, configured, upstream, issued, validTo, tokenCache,
            stationsCache, pricesCache>>

\* ------------------------------------------------------------ upstream
\* Records of the provider: station i lies 100 * i units north of LatO and
\* sells E10 at 1400 - i.
StationRec(i) ==
  [node_id |-> i, latitude |-> Fin(LatO + 100 * i), longitude |-> Fin(LonM)]

PriceRec(i) ==
  [node_id |-> i,
   fuel_prices |-> <<[fuel_type |-> "E10", price |-> Price(1400 - i)]>>]

\* The body of page number b of resource s: pages 1..upstream[s] are
\* non-empty (two records on an odd page, one on an even page), every later
\* page is the empty array.
UpstreamPage(s, b) ==
  LET ids == IF b % 2 = 1 THEN <<2 * b - 1, 2 * b>> ELSE <<2 * b - 1>>
  IN IF b > upstream[s] THEN <<>>
     ELSE IF s = "stations" THEN [i \in DOMAIN ids |-> StationRec(ids[i])]
     ELSE [i \in DOMAIN ids |-> PriceRec(ids[i])]

\* Replies to a page request.
PageOk(body) == [ok |-> TRUE, isArray |-> TRUE, body |-> body]
PageNotOk == [ok |-> FALSE, isArray |-> FALSE, body |-> <<>>]
PageNotArray == [ok |-> TRUE, isArray |-> FALSE, body |-> <<>>]

PageReplies(s, b) == {PageOk(UpstreamPage(s, b)), PageNotOk, PageNotArray}

\* Replies of the token endpoint: status, data.access_token,
\* data.expires_in, and what the first 300 characters of the body hold:
\* nothing secret, an access token (under data.access_token, or under a key
\* the code does not read such as a top-level access_token), or the client
\* secret of the request echoed in an error description.
TokenReply4(ok, hasToken, expires_in, text) ==
  [ok |-> ok, hasToken |-> hasToken, expires_in |-> expires_in, text |-> text]

TokenReplies ==
  {TokenReply4(FALSE, FALSE, Absent, "none"),
   TokenReply4(FALSE, FALSE, Absent, "secret"),
   TokenReply4(TRUE, FALSE, Absent, "none"),
   TokenReply4(TRUE, FALSE, Absent, "token"),
   TokenReply4(TRUE, TRUE, Absent, "token"),
   TokenReply4(TRUE, TRUE, Num(10), "token"),
   TokenReply4(TRUE, TRUE, Num(3600), "token")}

\* Replies of postcodes.io: a result with coordinates, or none.
GeoReplies ==
  {[ok |-> TRUE, lat |-> LatO, lon |-> LonM],
   [ok |-> FALSE, lat |-> 0, lon |-> 0]}

\* ------------------------------------------------------------ requests
Postcode == "FK10 2ET"

Request(lat, lon, postcode) ==
  [lat |-> lat, lon |-> lon, postcode |-> postcode,
   fuel |-> "", radiusKm |-> Absent, limit |-> Absent]

\* The requests of Spec: no location, coordinates with a zero, coordinates
\* without one, with and without a postcode.
Requests ==
  {Request(Absent, Absent, ""), Request(Absent, Absent, Postcode),
   Request(Num(LatO), Num(0), ""), Request(Num(0), Num(LonM), Postcode),
   Request(Num(LatO), Num(LonM), ""), Request(Num(LatO), Num(LonM), Postcode)}

NoPar == [fuel |-> "", radiusKm |-> 0, limit |-> 0]
NoLoc == [lat |-> Absent, lon |-> Absent]
NoResp ==
  [status |-> 0, error |-> "", echo |-> "none", center |-> NoLoc, count |-> 0,
   results |-> <<>>]
NoFetch == [st |-> "none", n |-> 0, batch |-> 0, all |-> <<>>, reqs |-> <<>>]

\* ------------------------------------------------------- fetchBatches
\* The first iteration of fetchBatches: the request for batch 1 is sent.
\* n is the nowMs() the cached getter read before it called fetchBatches.
FetchStart(n) ==
  [st |-> "wait", n |-> n, batch |-> 1, all |-> <<>>, reqs |-> <<1>>]

\* FetchReply that ends the loop on a non-success status as on an empty page.
FetchReplyBreakOnError(f, r) ==
  IF ~r.ok \/ ~r.isArray \/ Len(r.body) = 0 THEN [f EXCEPT !.st = "done"]
  ELSE IF f.batch + 1 <= MaxBatch
    THEN [f EXCEPT !.all = @ \o r.body, !.batch = @ + 1,
                   !.reqs = Append(@, f.batch + 1)]
    ELSE [f EXCEPT !.all = @ \o r.body, !.st = "done"]

\* FetchReply without the bound on batch.
FetchReplyNoBound(f, r) ==
  IF ~r.ok THEN [f EXCEPT !.st = "failed"]
  ELSE IF ~r.isArray \/ Len(r.body) = 0 THEN [f EXCEPT !.st = "done"]
  ELSE [f EXCEPT !.all = @ \o r.body, !.batch = @ + 1,
                 !.reqs = Append(@, f.batch + 1)]

\* FetchReply with the page put in front of the accumulator.
FetchReplyPrepend(f, r) ==
  IF ~r.ok THEN [f EXCEPT !.st = "failed"]
  ELSE IF ~r.isArray \/ Len(r.body) = 0 THEN [f EXCEPT !.st = "done"]
  ELSE IF f.batch + 1 <= MaxBatch
    THEN [f EXCEPT !.all = r.body \o @, !.batch = @ + 1,
                   !.reqs = Append(@, f.batch + 1)]
    ELSE [f EXCEPT !.all = r.body \o @, !.st = "done"]

\* The loop body after the reply r to the request for batch f.batch: throw
\* on a non-success status, break on a non-array or empty body, otherwise
\* push the records and request the next batch while batch <= 200.
FetchReply(f, r) ==
  IF ~r.ok THEN [f EXCEPT !.st = "failed"]
  ELSE IF ~r.isArray \/ Len(r.body) = 0 THEN [f EXCEPT !.st = "done"]
  ELSE IF f.batch + 1 <= MaxBatch
    THEN [f EXCEPT !.all = @ \o r.body, !.batch = @ + 1,
                   !.reqs = Append(@, f.batch + 1)]
    ELSE [f EXCEPT !.all = @ \o r.body, !.st = "done"]

\* ------------------------------------------------------ cached getters
CacheOf(s) == IF s = "stations" THEN stationsCache ELSE pricesCache
TtlMs(s) == IF s = "stations" THEN StationsTtlMs ELSE PricesTtlMs

\* CacheHit without the expiry test.
CacheHitNoExpiry(c, n) == ~c.data.null

\* if (cache.data && n < cache.expMs) return cache.data
CacheHit(c, n) == ~c.data.null /\ n < c.expMs

\* getStationsCached / getPricesCached up to the first await: a hit returns
\* the stored array, a miss calls fetchBatches.
GetCached(s, n) ==
  IF CacheHit(CacheOf(s), n)
    THEN [st |-> "hit", n |-> n, batch |-> 0, all |-> CacheOf(s).data.arr,
          reqs |-> <<>>]
    ELSE FetchStart(n)

\* The assignment after fetchBatches returned: { data, expMs: n + ttl }.
CacheStore(s, f) == [data |-> Arr(f.all), expMs |-> f.n + TtlMs(s)]

\* ------------------------------------------------------------ getToken
\* TokenHit without the 30 s margin.
TokenHitNoMargin(c, n) == c.token # 0 /\ n < c.expMs

\* if (tokenCache.token && n < tokenCache.expMs - 30_000)
TokenHit(c, n) == c.token # 0 /\ n < c.expMs - TokenMarginMs

\* Number(json?.data?.expires_in ?? 3600)
ExpiresIn(r) == IF r.expires_in.given THEN r.expires_in.v ELSE DefaultExpiresS

\* tokenCache after a successful exchange that returned token t.
TokenStore(t, r, n) ==
  [token |-> t, expMs |-> n + Max(MinExpiresS, ExpiresIn(r)) * 1000]

\* ------------------------------------------------------------- ranking
\* StationById without the test for finite coordinates.
RECURSIVE StationByIdNoFinite(_, _)
StationByIdNoFinite(stations, m) ==
  IF stations = <<>> THEN m
  ELSE LET s == Head(stations)
           st == [node_id |-> s.node_id, latitude |-> s.latitude,
                  longitude |-> s.longitude]
       IN StationByIdNoFinite(Tail(stations),
                              IF s.node_id # 0 THEN (s.node_id :> st) @@ m ELSE m)

\* The station map: stations without an id or with a non-finite latitude
\* or longitude are skipped, a later station replaces an earlier one of the
\* same id.
RECURSIVE StationById(_, _)
StationById(stations, m) ==
  IF stations = <<>> THEN m
  ELSE LET s == Head(stations)
           keep == s.node_id # 0 /\ s.latitude.fin /\ s.longitude.fin
           st == [node_id |-> s.node_id, latitude |-> s.latitude,
                  longitude |-> s.longitude]
       IN StationById(Tail(stations),
                      IF keep THEN (s.node_id :> st) @@ m ELSE m)

\* fps.find(fp => String(fp.fuel_type).toUpperCase() === fuel): the index of
\* the first matching entry, 0 when there is none.
RECURSIVE FindFuel(_, _, _)
FindFuel(fps, fuel, i) ==
  IF i > Len(fps) THEN 0
  ELSE IF ToUpperCase(fps[i].fuel_type) = fuel THEN i
  ELSE FindFuel(fps, fuel, i + 1)

\* The loop over the price records: one result per record that has a
\* station, a numeric price for the fuel and not dist > radius (metres; the
\* test is false for a NaN distance).
RECURSIVE Matches(_, _, _, _, _, _)
Matches(prices, byId, fuel, lat, lon, radius) ==
  IF prices = <<>> THEN <<>>
  ELSE LET p == Head(prices)
           rest == Matches(Tail(prices), byId, fuel, lat, lon, radius)
           i == FindFuel(p.fuel_prices, fuel, 1)
       IN IF p.node_id \notin DOMAIN byId THEN rest
          ELSE IF i = 0 \/ ~p.fuel_prices[i].price.num THEN rest
          ELSE LET st == byId[p.node_id]
                   dist == Distance(lat, lon, st.latitude, st.longitude)
               IN IF dist.fin /\ dist.v > radius THEN rest
                  ELSE <<[node_id |-> st.node_id, latitude |-> st.latitude.v,
                          longitude |-> st.longitude.v,
                          distance_km |-> round2(dist.v),
                          price_ppl |-> p.fuel_prices[i].price.v]>> \o rest

\* The comparator of results.sort.
Compare(a, b) ==
  IF a.price_ppl - b.price_ppl # 0 THEN a.price_ppl - b.price_ppl
  ELSE a.distance_km - b.distance_km

\* Array.prototype.sort is stable: x goes after every element that does not
\* compare greater than it.
RECURSIVE Insert(_, _)
Insert(sorted, x) ==
  IF sorted = <<>> THEN <<x>>
  ELSE IF Compare(Head(sorted), x) <= 0
    THEN <<Head(sorted)>> \o Insert(Tail(sorted), x)
    ELSE <<x>> \o sorted

RECURSIVE Sort(_)
Sort(rs) ==
  IF rs = <<>> THEN <<>>
  ELSE Insert(Sort(SubSeq(rs, 1, Len(rs) - 1)), rs[Len(rs)])

\* results.slice(0, Math.max(1, limit))
Slice(rs, limit) == SubSeq(rs, 1, Min(Len(rs), Max(1, limit)))

\* count: Math.min(results.length, limit)
Count(rs, limit) == Min(Len(rs), limit)

\* The parsed parameters of a request: fuel "" is an absent fuel, the
\* radius of a request is given in metres.
FuelOf(r) == ToUpperCase(IF r.fuel = "" THEN "E10" ELSE r.fuel)
RadiusOf(r) == IF r.radiusKm.given THEN r.radiusKm.v ELSE DefaultRadiusKm * 1000
LimitOf(r) == IF r.limit.given THEN r.limit.v ELSE DefaultLimit
Parse(r) == [fuel |-> FuelOf(r), radiusKm |-> RadiusOf(r), limit |-> LimitOf(r)]

\* All matches of a query in the order of the sort.
Ranked(stations, prices, p, o) ==
  Sort(Matches(prices, StationById(stations, <<>>), p.fuel,
               o.lat.v, o.lon.v, p.radiusKm))

\* The body of the success response.
Ok200(stations, prices, p, o) ==
  LET results == Ranked(stations, prices, p, o)
  IN [status |-> 200, error |-> "", echo |-> "none", center |-> o,
      count |-> Count(results, p.limit),
      results |-> Slice(results, p.limit)]

\* An error response whose message ends with text.slice(0, 300) of an
\* upstream body; echo is what that text holds.
ErrEcho(status, msg, text) ==
  [status |-> status, error |-> msg, echo |-> text, center |-> NoLoc,
   count |-> 0, results |-> <<>>]

Err(status, msg) == ErrEcho(status, msg, "none")

\* ---------------------------------------------------- handler segments
\* Each segment runs to the next await and sets pc, par, loc, tok, fetch
\* and resp of its handler.

\* The locals of a getter call are dropped once the call is over and its
\* handler has responded.
Settle(f) == IF f.st = "wait" THEN f ELSE NoFetch

\* res.status(..).json(..): the handler is over.
Finish(q, r) ==
  /\ pc' = [pc EXCEPT ![q] = "done"]
  /\ resp' = [resp EXCEPT ![q] = r]
  /\ par' = [par EXCEPT ![q] = NoPar]
  /\ loc' = [loc EXCEPT ![q] = NoLoc]
  /\ tok' = [tok EXCEPT ![q] = 0]
  /\ fetch' = [fetch EXCEPT ![q] = [s \in Slots |-> Settle(fetch[q][s])]]

\* Promise.all([getStationsCached(token), getPricesCached(token)]): both
\* getters run to their first await at once.
StartGetters(q, p, o, t) ==
  /\ pc' = [pc EXCEPT ![q] = "fetching"]
  /\ par' = [par EXCEPT ![q] = p]
  /\ loc' = [loc EXCEPT ![q] = o]
  /\ tok' = [tok EXCEPT ![q] = t]
  /\ fetch' = [fetch EXCEPT ![q] = [s \in Slots |-> GetCached(s, now)]]
  /\ UNCHANGED resp

\* await getToken(): a cached token is returned at once, missing
\* credentials throw, otherwise the exchange is sent.
StartGetToken(q, p, o) ==
  IF TokenHit(tokenCache, now) THEN StartGetters(q, p, o, tokenCache.token)
  ELSE IF ~configured
    THEN Finish(q, Err(500, "Missing FF_CLIENT_ID or FF_CLIENT_SECRET env vars"))
  ELSE /\ pc' = [pc EXCEPT ![q] = "token"]
       /\ par' = [par EXCEPT ![q] = p]
       /\ loc' = [loc EXCEPT ![q] = o]
       /\ UNCHANGED <<tok, fetch, resp>>

\* CheckLocation without the test.
CheckLocationNoTest(q, p, o) == StartGetToken(q, p, o)

\* if (!lat || !lon) return 400, else go on to getToken.
CheckLocation(q, p, o) ==
  IF Falsy(o.lat) \/ Falsy(o.lon)
    THEN Finish(q, Err(400, "Provide postcode or lat/lon"))
    ELSE StartGetToken(q, p, o)

\* -------------------------------------------------------------- actions
\* A /cheapest request arrives: parse, geocode if ((!lat || !lon) && postcode).
Cheapest(q, r) ==
  /\ pc[q] = "idle"
  /\ \A p \in Queries : p < q => pc[p] # "idle"   \* numbered as they arrive
  /\ LET o == [lat |-> r.lat, lon |-> r.lon]
     IN IF (Falsy(o.lat) \/ Falsy(o.lon)) /\ r.postcode # ""
          THEN /\ pc' = [pc EXCEPT ![q] = "geocode"]
               /\ par' = [par EXCEPT ![q] = Parse(r)]
               /\ UNCHANGED <<loc, tok, fetch, resp>>
          ELSE CheckLocation(q, Parse(r), o)
  /\ UNCHANGED shared

\* postcodes.io answers geocodePostcode: lat and lon are replaced.
GeocodeReply(q, g) ==
  /\ pc[q] = "geocode"
  /\ IF ~g.ok THEN Finish(q, Err(500, "Invalid postcode"))
     ELSE CheckLocation(q, par[q], [lat |-> Num(g.lat), lon |-> Num(g.lon)])
  /\ UNCHANGED shared

\* TokenReply that writes the expiry before it looks for the token.
TokenReplyStoreFirst(q, r) ==
  /\ pc[q] = "token"
  /\ IF ~r.ok
       THEN /\ Finish(q, ErrEcho(500, "Token error", r.text))
            /\ UNCHANGED <<tokenCache, issued, validTo>>
     ELSE IF ~r.hasToken
       THEN /\ Finish(q, ErrEcho(500, "Token missing access_token", r.text))
            /\ tokenCache' = TokenStore(tokenCache.token, r, now + 1)
            /\ UNCHANGED <<issued, validTo>>
     ELSE /\ issued' = issued + 1
          /\ validTo' = IF r.expires_in.given
                          THEN Num(now + r.expires_in.v * 1000) ELSE Absent
          /\ tokenCache' = TokenStore(issued + 1, r, now)
          /\ StartGetters(q, par[q], loc[q], issued + 1)
  /\ UNCHANGED <<now, ticks, configured, upstream, stationsCache, pricesCache>>

\* The token endpoint answers the exchange of getToken.
TokenReply(q, r) ==
  /\ pc[q] = "token"
  /\ IF ~r.ok
       THEN /\ Finish(q, ErrEcho(500, "Token error", r.text))
            /\ UNCHANGED <<tokenCache, issued, validTo>>
     ELSE IF ~r.hasToken
       THEN /\ Finish(q, ErrEcho(500, "Token missing access_token", r.text))
            /\ UNCHANGED <<tokenCache, issued, validTo>>
     ELSE /\ issued' = issued + 1
          /\ validTo' = IF r.expires_in.given
                          THEN Num(now + r.expires_in.v * 1000) ELSE Absent
          /\ tokenCache' = TokenStore(issued + 1, r, now)
          /\ StartGetters(q, par[q], loc[q], issued + 1)
  /\ UNCHANGED <<now, ticks, configured, upstream, stationsCache, pricesCache>>

\* PageReply whose getter returns the stored array when its fetch throws
\* and the slot holds one.
PageReplyServeStale(q, s, r) ==
  /\ fetch[q][s].st = "wait"
  /\ LET g == FetchReply(fetch[q][s], r)
         f == IF g.st = "failed" /\ ~CacheOf(s).data.null
                THEN [g EXCEPT !.st = "hit", !.all = CacheOf(s).data.arr]
                ELSE g
         fs == [fetch[q] EXCEPT ![s] = f]
     IN /\ stationsCache' = IF s = "stations" /\ f.st = "done"
                              THEN CacheStore(s, f) ELSE stationsCache
        /\ pricesCache' = IF s = "prices" /\ f.st = "done"
                            THEN CacheStore(s, f) ELSE pricesCache
        /\ IF f.st = "failed" /\ pc[q] = "fetching"
             THEN /\ pc' = [pc EXCEPT ![q] = "done"]
                  /\ resp' = [resp EXCEPT ![q] = Err(500, "Fuel Finder fetch error")]
                  /\ par' = [par EXCEPT ![q] = NoPar]
                  /\ loc' = [loc EXCEPT ![q] = NoLoc]
                  /\ tok' = [tok EXCEPT ![q] = 0]
                  /\ fetch' = [fetch EXCEPT ![q] = [x \in Slots |-> Settle(fs[x])]]
             ELSE /\ fetch' = [fetch EXCEPT ![q] =
                                IF pc[q] = "done"
                                  THEN [x \in Slots |-> Settle(fs[x])] ELSE fs]
                  /\ UNCHANGED <<pc, resp, par, loc, tok>>
  /\ UNCHANGED <<now, ticks, configured, upstream, issued, validTo, tokenCache>>

\* The provider answers the page request of a fetchBatches run.  When the
\* run ends the getter stores the slot; when it throws, Promise.all rejects
\* and the handler answers 500 (the other getter keeps running).
PageReply(q, s, r) ==
  /\ fetch[q][s].st = "wait"
  /\ LET f == FetchReply(fetch[q][s], r)
         fs == [fetch[q] EXCEPT ![s] = f]
     IN /\ stationsCache' = IF s = "stations" /\ f.st = "done"
                              THEN CacheStore(s, f) ELSE stationsCache
        /\ pricesCache' = IF s = "prices" /\ f.st = "done"
                            THEN CacheStore(s, f) ELSE pricesCache
        /\ IF f.st = "failed" /\ pc[q] = "fetching"
             THEN /\ pc' = [pc EXCEPT ![q] = "done"]
                  /\ resp' = [resp EXCEPT ![q] = Err(500, "Fuel Finder fetch error")]
                  /\ par' = [par EXCEPT ![q] = NoPar]
                  /\ loc' = [loc EXCEPT ![q] = NoLoc]
                  /\ tok' = [tok EXCEPT ![q] = 0]
                  /\ fetch' = [fetch EXCEPT ![q] = [x \in Slots |-> Settle(fs[x])]]
             ELSE /\ fetch' = [fetch EXCEPT ![q] =
                                IF pc[q] = "done"
                                  THEN [x \in Slots |-> Settle(fs[x])] ELSE fs]
                  /\ UNCHANGED <<pc, resp, par, loc, tok>>
  /\ UNCHANGED <<now, ticks, configured, upstream, issued, validTo, tokenCache>>

\* Rank that starts as soon as one getter has returned.
RankEarly(q) ==
  /\ pc[q] = "fetching"
  /\ \E s \in Slots : fetch[q][s].st \in {"hit", "done"}
  /\ Finish(q, Ok200(fetch[q]["stations"].all, fetch[q]["prices"].all,
                     par[q], loc[q]))
  /\ UNCHANGED shared

\* Both getters have returned: join, filter, sort, respond.
Rank(q) ==
  /\ pc[q] = "fetching"
  /\ \A s \in Slots : fetch[q][s].st \in {"hit", "done"}
  /\ Finish(q, Ok200(fetch[q]["stations"].all, fetch[q]["prices"].all,
                     par[q], loc[q]))
  /\ UNCHANGED shared

\* Time passes (while a handler can still act on it).
Tick(d) ==
  /\ ticks < MaxTicks
  /\ \E q \in Queries : pc[q] # "done"
  /\ now' = now + d
  /\ ticks' = ticks + 1
  /\ UNCHANGED <<configured, upstream, issued, validTo, tokenCache,
                 stationsCache, pricesCache, pc, par, loc, tok, fetch, resp>>

\* The clock advances by 15 s, or by one of the program's periods.
TickSteps == {15000, TokenMarginMs, PricesTtlMs, StationsTtlMs}

\* ------------------------------------------------------- specification
InitLocal ==
  /\ pc = [q \in Queries |-> "idle"]
  /\ par = [q \in Queries |-> NoPar]
  /\ loc = [q \in Queries |-> NoLoc]
  /\ tok = [q \in Queries |-> 0]
  /\ fetch = [q \in Queries |-> [s \in Slots |-> NoFetch]]
  /\ resp = [q \in Queries |-> NoResp]

InitShared ==
  /\ now = 0
  /\ ticks = 0
  /\ issued = 0
  /\ validTo = Absent
  /\ tokenCache = [token |-> 0, expMs |-> 0]
  /\ stationsCache = [data |-> NullData, expMs |-> 0]
  /\ pricesCache = [data |-> NullData, expMs |-> 0]

Init ==
  /\ InitShared
  /\ InitLocal
  /\ configured \in BOOLEAN
  /\ upstream = [stations |-> MaxPages, prices |-> MaxPages]

Next ==
  \/ \E q \in Queries, r \in Requests : Cheapest(q, r)
  \/ \E q \in Queries, g \in GeoReplies : GeocodeReply(q, g)
  \/ \E q \in Queries, r \in TokenReplies : TokenReply(q, r)
  \/ \E q \in Queries, s \in Slots :
       \E r \in PageReplies(s, fetch[q][s].batch) : PageReply(q, s, r)
  \/ \E q \in Queries : Rank(q)
  \/ \E d \in TickSteps : Tick(d)

Spec == Init /\ [][Next]_vars

\* ------------------------------------------- fetchBatches on its own
\* One handler whose two getters have just sent their first page request,
\* against a provider that answers every request with a success and serves
\* any number of non-empty station pages, up to more than the loop asks for.
FirstRequest == Request(Num(LatO), Num(LonM), "")
FirstLoc == [lat |-> Num(LatO), lon |-> Num(LonM)]
FirstToken == TokenReply4(TRUE, TRUE, Absent, "token")

InitFetch ==
  /\ now = 0
  /\ ticks = 0
  /\ configured = TRUE
  /\ issued = 1
  /\ validTo = Absent
  /\ tokenCache = TokenStore(1, FirstToken, 0)
  /\ stationsCache = [data |-> NullData, expMs |-> 0]
  /\ pricesCache = [data |-> NullData, expMs |-> 0]
  /\ upstream \in [stations : 0..(MaxBatch + 1), prices : {0}]
  /\ pc = [q \in Queries |-> IF q = 1 THEN "fetching" ELSE "idle"]
  /\ par = [q \in Queries |-> IF q = 1 THEN Parse(FirstRequest) ELSE NoPar]
  /\ loc = [q \in Queries |-> IF q = 1 THEN FirstLoc ELSE NoLoc]
  /\ tok = [q \in Queries |-> IF q = 1 THEN 1 ELSE 0]
  /\ fetch = [q \in Queries |->
               [s \in Slots |-> IF q = 1 THEN FetchStart(0) ELSE NoFetch]]
  /\ resp = [q \in Queries |-> NoResp]

NextFetch ==
  \E q \in Queries, s \in Slots :
    PageReply(q, s, PageOk(UpstreamPage(s, fetch[q][s].batch)))

SpecFetch == InitFetch /\ [][NextFetch]_vars

\* Every page request is answered.
SpecFetchLive == SpecFetch /\ WF_vars(NextFetch)

\* ---------------------------------------------- the ranking on its own
\* One handler whose two getters have returned the cached datasets, for
\* every station and price dataset up to MaxStations and MaxPrices records
\* of the pools below and every fuel, radius and limit of RankRequests.
SeqsUpTo(S, n) == UNION {[1..m -> S] : m \in 0..n}

Station(id, lat, lon) == [node_id |-> id, latitude |-> lat, longitude |-> lon]
PriceOf(id, fps) == [node_id |-> id, fuel_prices |-> fps]
Fuel(label, price) == [fuel_type |-> label, price |-> price]

\* Station 1 at 3 m, station 2 at 1 m, station 3 at 1111 m, and a record of
\* station 2 without a finite latitude.
StationPool ==
  {Station(1, Fin(LatO + 3), Fin(LonM)),
   Station(2, Fin(LatO + 1), Fin(LonM)),
   Station(3, Fin(LatO + 1000), Fin(LonM)),
   Station(2, NotFinite, Fin(LonM))}

\* Equal E10 prices for stations 1 and 2 (one label in lower case), a
\* cheaper station 3, a record whose first E10 price is no number and a
\* record of a station the provider does not list.
PricePool ==
  {PriceOf(1, <<Fuel("E10", Price(1400))>>),
   PriceOf(2, <<Fuel("B7", Price(1500)), Fuel("e10", Price(1400))>>),
   PriceOf(3, <<Fuel("E10", Price(1395))>>),
   PriceOf(2, <<Fuel("E10", NotANumber), Fuel("E10", Price(1390))>>),
   PriceOf(4, <<Fuel("E10", Price(1300))>>)}

\* fuel absent or b7, radius absent (10 km) or 1 km, limit absent, 0 or 1.
RankRequests ==
  {[lat |-> Num(LatO), lon |-> Num(LonM), postcode |-> "", fuel |-> f,
    radiusKm |-> r, limit |-> l] :
     f \in {"", "b7"}, r \in {Absent, Num(1000)}, l \in {Absent, Num(0), Num(1)}}

Returned(data) ==
  [st |-> "hit", n |-> 0, batch |-> 0, all |-> data, reqs |-> <<>>]

InitRank ==
  /\ now = 0
  /\ ticks = 0
  /\ configured = TRUE
  /\ issued = 1
  /\ validTo = Absent
  /\ tokenCache = TokenStore(1, FirstToken, 0)
  /\ upstream = [stations |-> 0, prices |-> 0]
  /\ \E st \in SeqsUpTo(StationPool, MaxStations),
        pr \in SeqsUpTo(PricePool, MaxPrices), r \in RankRequests :
       /\ stationsCache = [data |-> Arr(st), expMs |-> StationsTtlMs]
       /\ pricesCache = [data |-> Arr(pr), expMs |-> PricesTtlMs]
       /\ par = [q \in Queries |-> IF q = 1 THEN Parse(r) ELSE NoPar]
       /\ fetch = [q \in Queries |->
                    IF q = 1 THEN [s \in Slots |-> Returned(IF s = "stations"
                                                              THEN st ELSE pr)]
                    ELSE [s \in Slots |-> NoFetch]]
  /\ pc = [q \in Queries |-> IF q = 1 THEN "fetching" ELSE "idle"]
  /\ loc = [q \in Queries |-> IF q = 1 THEN FirstLoc ELSE NoLoc]
  /\ tok = [q \in Queries |-> IF q = 1 THEN 1 ELSE 0]
  /\ resp = [q \in Queries |-> NoResp]

NextRank == \E q \in Queries : Rank(q)

SpecRank == InitRank /\ [][NextRank]_vars

\* =============================================================== claims

\* C1: for each cache slot at most one fetchBatches run is in flight at any
\* time: concurrent misses on a slot are served by one refresh.
C1_SingleFlight ==
  \A s \in Slots : Cardinality({q \in Queries : fetch[q][s].st = "wait"}) <= 1

\* C2: at most one credential-grant exchange with the token endpoint is in
\* flight at any time.
C2_OneExchange == Cardinality({q \in Queries : pc[q] = "token"}) <= 1

\* C3: once a token is stored with expiry E = tokenCache.expMs, a handler
\* that calls getToken at now < E - 30 s gets the stored token and sends no
\* request to the token endpoint; one that calls it at now >= E - 30 s sends
\* a new exchange.
C3_TokenReuse ==
  [][\A q \in Queries :
       (/\ tokenCache.token # 0
        /\ pc[q] \in {"idle", "geocode"}
        /\ pc'[q] \in {"token", "fetching"})
       => IF now < tokenCache.expMs - 30000
            THEN /\ pc'[q] = "fetching"
                 /\ tok'[q] = tokenCache.token
                 /\ tokenCache' = tokenCache
                 /\ issued' = issued
            ELSE pc'[q] = "token"]_vars

\* Two handlers run with the same token: every exchange issues a new one,
\* so the later handler took it from the cache.
C3_Witness ==
  \E p, q \in Queries :
    /\ p # q
    /\ pc[p] = "fetching" /\ pc[q] = "fetching"
    /\ tok[q] # 0
    /\ tok[p] = tok[q]

\* C4: a cached getter called while the slot holds data and now < expMs
\* returns the stored array and sends no page request; called on an empty
\* or expired slot it sends the request for page 1, and when its fetch
\* returns, the slot holds exactly the fetched array with expiry n + 24 h
\* (stations) or n + 5 min (prices), n being the time of the call, and the
\* getter returns the fetched array.
C4_CachedGetter ==
  [][\A q \in Queries, s \in Slots :
       LET c == CacheOf(s)
           ttl == IF s = "stations" THEN StationsTtlMs ELSE PricesTtlMs
       IN /\ (pc[q] # "fetching" /\ pc'[q] = "fetching")
             => /\ fetch'[q][s].n = now
                /\ CacheOf(s)' = c
                /\ IF ~c.data.null /\ now < c.expMs
                     THEN /\ fetch'[q][s].st = "hit"
                          /\ fetch'[q][s].all = c.data.arr
                          /\ fetch'[q][s].reqs = <<>>
                     ELSE /\ fetch'[q][s].st = "wait"
                          /\ fetch'[q][s].reqs = <<1>>
          /\ (fetch[q][s].st = "wait" /\ fetch'[q][s].st = "done")
             => CacheOf(s)' = [data |-> Arr(fetch'[q][s].all),
                               expMs |-> fetch[q][s].n + ttl]]_vars

\* One getter of a handler returned the stored array of a slot that an
\* earlier fetch filled, while the other getter of that handler fetches.
C4_Witness ==
  \E q \in Queries, s \in Slots, t \in Slots :
    /\ fetch[q][s].st = "hit"
    /\ fetch[q][s].all = CacheOf(s).data.arr
    /\ fetch[q][t].st = "wait"

\* The concatenation of pages 1..k of resource s.
RECURSIVE Pages(_, _)
Pages(s, k) == IF k = 0 THEN <<>> ELSE Pages(s, k - 1) \o UpstreamPage(s, k)

\* C5: against a provider that serves k < 200 non-empty pages and then an
\* empty one, fetchBatches returns pages 1..k concatenated in page order
\* and has requested exactly the pages 1, 2, ..., k + 1 in that order.
C5_AllPages ==
  \A q \in Queries, s \in Slots :
    (fetch[q][s].st = "done" /\ upstream[s] < MaxBatch)
    => /\ fetch[q][s].all = Pages(s, upstream[s])
       /\ fetch[q][s].reqs = [i \in 1..(upstream[s] + 1) |-> i]

\* A fetch of three non-empty pages (five records) has returned.
C5_Witness ==
  \E q \in Queries :
    /\ fetch[q]["stations"].st = "done"
    /\ upstream["stations"] = 3
    /\ Len(fetch[q]["stations"].all) = 5
    /\ Len(fetch[q]["stations"].reqs) = 4

\* The distance of a result's station from the origin o.
DistanceOf(e, o) == haversineKm(o.lat.v, o.lon.v, e.latitude, e.longitude)

\* C6: in the results of a success response, for positions i < j the price
\* at i is <= the price at j, and when the prices are equal the station at
\* i is no farther from the origin than the station at j.
C6_SortedByPriceThenDistance ==
  \A q \in Queries :
    resp[q].status = 200
    => \A i, j \in DOMAIN resp[q].results :
         i < j
         => LET a == resp[q].results[i]
                b == resp[q].results[j]
            IN /\ a.price_ppl <= b.price_ppl
               /\ a.price_ppl = b.price_ppl
                  => DistanceOf(a, resp[q].center) <= DistanceOf(b, resp[q].center)

\* The handler answers 200 in this step.
Responds200(q) ==
  pc[q] = "fetching" /\ pc'[q] = "done" /\ resp'[q].status = 200

\* Entry e of a response refers to a station record with finite
\* coordinates, comes from a price record with a numeric price for the
\* requested fuel, and lies within the radius.
EntryOk(e, stations, prices, p, o) ==
  /\ \E j \in DOMAIN stations :
       /\ stations[j].node_id = e.node_id
       /\ stations[j].latitude.fin /\ stations[j].longitude.fin
       /\ e.latitude = stations[j].latitude.v
       /\ e.longitude = stations[j].longitude.v
  /\ \E j \in DOMAIN prices :
       /\ prices[j].node_id = e.node_id
       /\ \E k \in DOMAIN prices[j].fuel_prices :
            LET fp == prices[j].fuel_prices[k]
            IN /\ ToUpperCase(fp.fuel_type) = p.fuel
               /\ fp.price.num
               /\ fp.price.v = e.price_ppl
  /\ DistanceOf(e, o) <= p.radiusKm

\* C7: every entry of the results refers to a station of the station
\* dataset with finite latitude and longitude, comes from a price record
\* with a numeric price for the requested fuel (labels compared without
\* case) and lies within radiusKm of the origin; so a station without
\* finite coordinates and a price record without a station never appear.
C7_ResultsAreMatches ==
  [][\A q \in Queries :
       Responds200(q)
       => \A i \in DOMAIN resp'[q].results :
            EntryOk(resp'[q].results[i], fetch[q]["stations"].all,
                    fetch[q]["prices"].all, par[q], loc[q])]_vars

\* A response with one result, from datasets that hold a station record
\* without a finite latitude together with an E10 price for that station,
\* and a price record of a station the provider does not list.
C7_Witness ==
  /\ resp[1].status = 200
  /\ Len(resp[1].results) = 1
  /\ resp[1].results[1].node_id = 1
  /\ \E j \in DOMAIN stationsCache.data.arr :
       /\ ~stationsCache.data.arr[j].latitude.fin
       /\ \E k \in DOMAIN pricesCache.data.arr :
            /\ pricesCache.data.arr[k].node_id = stationsCache.data.arr[j].node_id
            /\ FindFuel(pricesCache.data.arr[k].fuel_prices, "E10", 1) = 2
  /\ \E k \in DOMAIN pricesCache.data.arr : pricesCache.data.arr[k].node_id = 4

\* C8: the results are the first min(M, max(1, limit)) sorted matches, and
\* the count returned with them is M, the number of matches before
\* truncation.
C8_UntruncatedCount ==
  [][\A q \in Queries :
       Responds200(q)
       => LET all == Ranked(fetch[q]["stations"].all, fetch[q]["prices"].all,
                            par[q], loc[q])
              M == Len(all)
          IN /\ resp'[q].results = SubSeq(all, 1, Min(M, Max(1, par[q].limit)))
             /\ resp'[q].count = M]_vars

\* A request without postcode, lat and lon.
NoLocation(r) == ~r.lat.given /\ ~r.lon.given /\ r.postcode = ""

\* C9: the step in which a request without postcode and without lat/lon
\* arrives answers it 400 with an error body, makes no geocoding, token or
\* page request for it and leaves the token cache and both slots unchanged.
C9_MissingLocation ==
  [][\A q \in Queries, r \in Requests :
       (NoLocation(r) /\ Cheapest(q, r))
       => /\ pc'[q] = "done"
          /\ resp'[q].status = 400
          /\ resp'[q].error # ""
          /\ fetch'[q] = [s \in Slots |-> NoFetch]
          /\ UNCHANGED <<tokenCache, stationsCache, pricesCache, issued>>]_vars

\* A handler has answered 400 for a missing location.
C9_Witness ==
  \E q \in Queries :
    /\ pc[q] = "done"
    /\ resp[q] = Err(400, "Provide postcode or lat/lon")

\* C10: a request that gives both lat and lon (0 included) makes no
\* geocoding request, runs with the given coordinates as its origin and is
\* not refused for a missing location, with or without a postcode.
C10_DirectCoordinates ==
  [][\A q \in Queries, r \in Requests :
       (r.lat.given /\ r.lon.given /\ Cheapest(q, r))
       => /\ pc'[q] # "geocode"
          /\ resp'[q].status # 400
          /\ pc'[q] \in {"token", "fetching"}
             => loc'[q] = [lat |-> r.lat, lon |-> r.lon]]_vars

\* A page request of the fetch of handler q on slot s is answered with a
\* non-success status.
PageFails(q, s) == fetch[q][s].st = "wait" /\ PageReply(q, s, PageNotOk)

\* C11: the step in which a page request is answered with a non-success
\* status ends the fetch: the slot is not written, no further page is
\* requested, and the handler is over with an error response that carries
\* no results.
C11_FailedPageFailsFetch ==
  [][\A q \in Queries, s \in Slots :
       PageFails(q, s)
       => /\ CacheOf(s)' = CacheOf(s)
          /\ fetch'[q][s] = NoFetch
          /\ pc'[q] = "done"
          /\ resp'[q].status = 500
          /\ resp'[q].error # ""
          /\ resp'[q].results = <<>>
          /\ resp'[q].count = 0]_vars

\* A handler answered with the fetch error while a slot is still empty.
C11_Witness ==
  \E q \in Queries, s \in Slots :
    /\ pc[q] = "done"
    /\ resp[q] = Err(500, "Fuel Finder fetch error")
    /\ fetch[q][s] = NoFetch
    /\ CacheOf(s).data.null

\* C12: the step in which a page request is answered with a success status
\* and a body that is no array fails the fetch: the slot is not written and
\* the handler is over with an error response.
C12_MalformedPageFails ==
  [][\A q \in Queries, s \in Slots :
       (fetch[q][s].st = "wait" /\ PageReply(q, s, PageNotArray))
       => /\ CacheOf(s)' = CacheOf(s)
          /\ pc'[q] = "done"
          /\ resp'[q].status \notin {0, 200}]_vars

\* C13: when the refresh of an empty or expired slot fails, the handler
\* that called it answers with the error and without results (the stored
\* array is not served), the slot is left exactly as it was, and a getter
\* called next on the slot, while it is still empty or expired, sends the
\* request for page 1 again.
C13_FailedRefresh ==
  [][\A q \in Queries, s \in Slots :
       PageFails(q, s)
       => /\ CacheOf(s)' = CacheOf(s)
          /\ pc[q] = "fetching"
             => /\ pc'[q] = "done"
                /\ resp'[q] = Err(500, "Fuel Finder fetch error")
          /\ pc[q] = "done" => resp'[q] = resp[q]
          /\ (CacheOf(s).data.null \/ CacheOf(s).expMs <= now)
             => GetCached(s, now)' = FetchStart(now)]_vars

\* A handler answered with the fetch error while a slot holds an expired
\* array.
C13_Witness ==
  \E q \in Queries, s \in Slots :
    /\ resp[q] = Err(500, "Fuel Finder fetch error")
    /\ ~CacheOf(s).data.null
    /\ CacheOf(s).expMs <= now
    /\ \A t \in Slots : t # s => CacheHit(CacheOf(t), now)

\* C14: an error response has status 400 for a missing location or a
\* postcode the geocoder rejects, 502 or 504 for a failed token exchange or
\* page fetch, and 500 for anything else.
C14_StatusByFailureClass ==
  \A q \in Queries :
    resp[q].status \notin {0, 200}
    => /\ resp[q].error # ""
       /\ CASE resp[q].error \in {"Provide postcode or lat/lon", "Invalid postcode"}
                 -> resp[q].status = 400
            [] resp[q].error \in {"Token error", "Token missing access_token",
                                  "Fuel Finder fetch error"}
                 -> resp[q].status \in {502, 504}
            [] OTHER -> resp[q].status = 500

\* C15: no response carries the client secret or an access token in its
\* error message.
C15_NoSecretInError == \A q \in Queries : resp[q].echo = "none"

\* C16: a handler answers 200 only in a step before which both of its
\* getters have returned; the step in which one of its fetches fails
\* leaves it with an error response; and a response, once sent, stays.
C16_RankAfterBoth ==
  [][\A q \in Queries :
       /\ Responds200(q)
          => \A s \in Slots : fetch[q][s].st \in {"hit", "done"}
       /\ \A s \in Slots : PageFails(q, s) => resp'[q].status = 500
       /\ resp[q].status # 0 => resp'[q] = resp[q]]_vars

\* A handler ranked the two stations of the provider after both slots were
\* fetched and stored.
C16_Witness ==
  \E q \in Queries :
    /\ resp[q].status = 200
    /\ Len(resp[q].results) = 2
    /\ \A s \in Slots : ~CacheOf(s).data.null /\ fetch[q][s] = NoFetch

\* The concatenation of pages lo..hi of resource s, by halves.
RECURSIVE PagesFromTo(_, _, _)
PagesFromTo(s, lo, hi) ==
  IF lo > hi THEN <<>>
  ELSE IF lo = hi THEN UpstreamPage(s, lo)
  ELSE LET mid == (lo + hi) \div 2
       IN PagesFromTo(s, lo, mid) \o PagesFromTo(s, mid + 1, hi)

\* No fetch of any handler is waiting for a page.
FetchesOver == \A q \in Queries, s \in Slots : fetch[q][s].st # "wait"

\* C17: against a provider that answers every page request and serves 200
\* or more non-empty pages, fetchBatches never sends more than 200 page
\* requests, ends, and then returns without an error the records of pages
\* 1..200 in order.
C17_BoundedFetch ==
  /\ [](\A q \in Queries, s \in Slots :
          /\ Len(fetch[q][s].reqs) <= MaxBatch
          /\ fetch[q][s].st # "failed"
          /\ (fetch[q][s].st = "done" /\ upstream[s] >= MaxBatch)
             => /\ fetch[q][s].all = PagesFromTo(s, 1, MaxBatch)
                /\ fetch[q][s].reqs = [i \in 1..MaxBatch |-> i])
  /\ <>FetchesOver

\* A fetch against a provider with more than 200 pages has returned after
\* 200 requests.
C17_Witness ==
  \E q \in Queries :
    /\ upstream["stations"] = MaxBatch + 1
    /\ fetch[q]["stations"].st = "done"
    /\ Len(fetch[q]["stations"].reqs) = MaxBatch
    /\ Len(fetch[q]["stations"].all) = 300

\* C18: tokenCache changes only in the step in which a token exchange is
\* answered with a success status and an access token; the answer to a
\* failed exchange and a getToken call without credentials leave token and
\* expiry as they are.
C18_OnlyExchangeWrites ==
  [][/\ tokenCache' # tokenCache
        => \E q \in Queries, r \in TokenReplies :
             /\ r.ok /\ r.hasToken
             /\ pc[q] = "token" /\ pc'[q] = "fetching"
             /\ tokenCache' = TokenStore(tok'[q], r, now)
     /\ \A q \in Queries, r \in TokenReplies :
          (~(r.ok /\ r.hasToken) /\ TokenReply(q, r)) => tokenCache' = tokenCache
     /\ \A q \in Queries :
          (~configured /\ pc[q] \in {"idle", "geocode"} /\ pc'[q] # pc[q])
          => tokenCache' = tokenCache]_vars

\* An exchange failed while a token obtained earlier is stored.
C18_Witness ==
  \E q \in Queries :
    /\ resp[q].error \in {"Token error", "Token missing access_token"}
    /\ tokenCache.token # 0
    /\ tokenCache.token = issued

\* C19: getToken returns the stored token only before the time until which
\* the token endpoint honours it (the time of issue plus expires_in).
C19_FreshToken ==
  [][\A q \in Queries :
       (/\ pc[q] \in {"idle", "geocode"}
        /\ pc'[q] = "fetching"
        /\ validTo.given)
       => now < validTo.v]_vars

\* C20: the expiry of a slot never decreases, so a refresh that found its
\* miss earlier never replaces the entry of a refresh that found it later.
C20_ExpiryNeverDecreases ==
  [][\A s \in Slots : CacheOf(s)'.expMs >= CacheOf(s).expMs]_vars

====
